---- MODULE Spec2Model ----
(***************************************************************************)
(* pgnet: a fully-convolutional classification network (get and its layer  *)
(* builders) and the routine that freezes a trained checkpoint into an     *)
(* inference graph (export_model).                                         *)
(*                                                                         *)
(* A tensor shape is <<batch, height, width, depth>>.  An op name          *)
(* "a/b/c" is the sequence <<"a", "b", "c">> of its scope components.  A   *)
(* file path "d/f" is the sequence <<"d", "f">>.                           *)
(***************************************************************************)
EXTENDS Integers, Sequences, FiniteSets, TLC

VARIABLES
    images,     \* shape of the images_ tensor handed to get()
    get_args,   \* num_classes and train_phase handed to get()
    get_ret,    \* how get() ended, and the layer whose convolution raised
    graph,      \* the layers of the graph being built (in creation order)
    fs,         \* the file system: path -> content, NoFile when absent
    fs0,        \* the file system as it was when export_model was entered
    pc,         \* position inside export_model
    args,       \* arguments of the current export_model call
    log,        \* framework calls made by the current export_model call
    ret,        \* how the last export_model call ended
    stdout,     \* lines printed to stdout by the last call (export_model, get)
    stderr,     \* lines printed to stderr by the last export_model call
    ncalls      \* number of export_model calls so far

vars == <<images, get_args, get_ret, graph, fs, fs0, pc, args, log, ret, stdout, stderr, ncalls>>

-----------------------------------------------------------------------------
(* Bounds of the model *)

MaxSide == 200
MaxClasses == 2
MaxCalls == 3

-----------------------------------------------------------------------------
(* network constants, pgnet.py *)

INPUT_SIDE == 192
INPUT_DEPTH == 3
KERNEL_SIDE == 3
\* a last kernel that covers a single position
LAST_KERNEL_SIDE_1x1 == KERNEL_SIDE - 2
LAST_KERNEL_SIDE == KERNEL_SIDE
FC_NEURONS == 2048
OUTPUT_TENSOR_NAME == <<"softmax_linear", "out">>

\* the unknown batch dimension of a placeholder (shape=[None, ...])
NoneDim == -1

\* num_kernels = 2**7
FirstNumKernels == 128

\* strides every eq_conv_layer block of get() is given
ConvStrides == <<1, 2, 2, 1>>

\* strides of the dense blocks and of the final projection
DenseStrides == <<1, 1, 1, 1>>

\* num_kernels doubled before every block
NextNumKernelsEveryBlock(num_kernels, block) == num_kernels * 2

\* num_kernels *= 2, which get() does before conv3 and before conv5
NextNumKernels(num_kernels, block) ==
    IF block % 2 = 1 THEN num_kernels * 2 ELSE num_kernels

-----------------------------------------------------------------------------
(* Shapes computed by the framework primitives the builders call *)

\* tf.pad(x, [[0,0],[p,p],[p,p],[0,0]])
PadShape(shape, p) ==
    <<shape[1], shape[2] + 2 * p, shape[3] + 2 * p, shape[4]>>

\* output size of tf.nn.conv2d along one spatial dimension
ConvOutSize(in, k, stride, padding) ==
    IF padding = "VALID"
    THEN (in - k + stride) \div stride
    ELSE (in + stride - 1) \div stride

\* tf.nn.conv2d(input_x, kernels, strides, padding)
Conv2dShape(shape, kernel_shape, strides, padding) ==
    <<shape[1],
      ConvOutSize(shape[2], kernel_shape[1], strides[2], padding),
      ConvOutSize(shape[3], kernel_shape[2], strides[3], padding),
      kernel_shape[4]>>

\* tf.nn.conv2d raises ValueError when the kernel does not fit the input:
\* no output position exists along some spatial dimension
Conv2dRaises(shape, kernel_shape, strides, padding) ==
    \/ ConvOutSize(shape[2], kernel_shape[1], strides[2], padding) < 1
    \/ ConvOutSize(shape[3], kernel_shape[2], strides[3], padding) < 1

-----------------------------------------------------------------------------
(* Layer builders *)

\* conv_layer with the ReLU left at its default op name
conv_layer_unnamed(scope, input_shape, kernel_shape, padding, strides) ==
    [name         |-> scope \o <<"Relu">>,
     kernel_shape |-> kernel_shape,
     strides      |-> strides,
     padding      |-> padding,
     in_shape     |-> input_shape,
     raised       |-> Conv2dRaises(input_shape, kernel_shape, strides, padding),
     shape        |-> Conv2dShape(input_shape, kernel_shape, strides, padding)]

\* conv_layer: ReLU(conv2d(x, kernels, padding, strides) + bias), name="out"
conv_layer(scope, input_shape, kernel_shape, padding, strides) ==
    [name         |-> scope \o <<"out">>,
     kernel_shape |-> kernel_shape,
     strides      |-> strides,
     padding      |-> padding,
     in_shape     |-> input_shape,
     raised       |-> Conv2dRaises(input_shape, kernel_shape, strides, padding),
     shape        |-> Conv2dShape(input_shape, kernel_shape, strides, padding)]

\* eq_conv_layer without the zero padding
pad_amount_none(kernel_side) == 0

\* pad_amount = int((kernel_side - 1) / 2)
\* (int() truncates toward zero)
pad_amount(kernel_side) ==
    IF kernel_side >= 1
    THEN (kernel_side - 1) \div 2
    ELSE -((1 - kernel_side) \div 2)

\* eq_conv_layer: batch_norm(conv_layer(input_padded)); the record describes
\* the block: the convolution it holds, the padding it applied, its output
eq_conv_layer(scope, input_shape, kernel_side, num_kernels, strides, is_training) ==
    LET sc           == scope \o <<"eq_conv_layer">>
        kernel_shape == <<kernel_side, kernel_side, input_shape[4], num_kernels>>
        input_padded == PadShape(input_shape, pad_amount(kernel_side))
        conv         == conv_layer(sc, input_padded, kernel_shape, "VALID", strides)
    IN  [name         |-> sc \o <<"BatchNorm">>,
         block        |-> "eq_conv",
         conv         |-> conv.name,
         kernel_shape |-> conv.kernel_shape,
         strides      |-> conv.strides,
         padding      |-> conv.padding,
         pad          |-> pad_amount(kernel_side),
         is_training  |-> is_training,
         dropout      |-> FALSE,
         in_shape     |-> input_shape,
         raised       |-> conv.raised,
         shape        |-> conv.shape]

\* a conv_layer used as a dense block of get(), optionally followed by dropout
DenseBlock(scope, input_shape, kernel_shape, dropout) ==
    LET conv == conv_layer(scope, input_shape, kernel_shape, "VALID", DenseStrides)
    IN  [name         |-> IF dropout THEN scope \o <<"dropout">> ELSE conv.name,
         block        |-> "conv",
         conv         |-> conv.name,
         kernel_shape |-> conv.kernel_shape,
         strides      |-> conv.strides,
         padding      |-> conv.padding,
         pad          |-> 0,
         is_training  |-> "unused",
         dropout      |-> dropout,
         in_shape     |-> input_shape,
         raised       |-> conv.raised,
         shape        |-> conv.shape]

\* name of the i-th convolution block's scope inside its filter-count scope
ConvScope(num_kernels, i) ==
    <<IF num_kernels = 128 THEN "128"
      ELSE IF num_kernels = 256 THEN "256"
      ELSE IF num_kernels = 512 THEN "512" ELSE "n",
      CASE i = 1 -> "conv1" [] i = 2 -> "conv2" [] i = 3 -> "conv3"
        [] i = 4 -> "conv4" [] i = 5 -> "conv5" [] OTHER -> "conv6">>

\* the convolution blocks conv_i..conv_n of get(), in creation order, conv_i
\* reading a tensor of shape input_shape while num_kernels holds its value
\* from the block before
RECURSIVE ConvBlocks(_, _, _, _, _)
ConvBlocks(i, n, input_shape, num_kernels, is_training) ==
    IF i > n THEN <<>>
    ELSE LET kernels == IF i = 1 THEN num_kernels
                        ELSE NextNumKernels(num_kernels, i)
             block   == eq_conv_layer(ConvScope(kernels, i), input_shape,
                                      KERNEL_SIDE, kernels, ConvStrides,
                                      is_training)
         IN  <<block>> \o ConvBlocks(i + 1, n, block.shape, kernels, is_training)

NumConvBlocks == 6

\* no layer
NoLayer ==
    [name |-> <<>>, block |-> "none", conv |-> <<>>, kernel_shape |-> <<>>,
     strides |-> <<>>, padding |-> "", pad |-> 0, is_training |-> "unused",
     dropout |-> FALSE, in_shape |-> <<>>, raised |-> FALSE, shape |-> <<>>]

\* print(tensor): the line names the tensor and gives its shape
Line(name, shape) == [text |-> name, shape |-> shape]

\* print(input_padded) of eq_conv_layer
PaddedLine(layer) ==
    Line(SubSeq(layer.conv, 1, Len(layer.conv) - 1) \o <<"input_padded">>,
         PadShape(layer.in_shape, layer.pad))

\* what creating a layer prints: eq_conv_layer prints its padded input and
\* get() prints the block's output (conv1..conv6, dropout1, dropout2, out)
LinesOf(layer) ==
    IF layer.block = "eq_conv"
    THEN <<PaddedLine(layer), Line(layer.name, layer.shape)>>
    ELSE <<Line(layer.name, layer.shape)>>

\* what is printed of a layer whose conv2d raises
LinesBeforeRaise(layer) ==
    IF layer.block = "eq_conv" THEN <<PaddedLine(layer)>> ELSE <<>>

\* a run of the statements that create the layers planned[i], planned[i+1],
\* ... in order, `created` being there and `printed` printed already: the
\* first layer whose conv2d raises ends the run, that layer and the ones
\* after it are not created and the ValueError leaves the caller
RECURSIVE RunBuilders(_, _, _, _)
RunBuilders(planned, i, created, printed) ==
    IF i > Len(planned)
    THEN [status |-> "returned", layers |-> created, attempted |-> NoLayer,
          printed |-> printed]
    ELSE IF planned[i].raised
    THEN [status |-> "ValueError", layers |-> created, attempted |-> planned[i],
          printed |-> printed \o LinesBeforeRaise(planned[i])]
    ELSE RunBuilders(planned, i + 1, Append(created, planned[i]),
                     printed \o LinesOf(planned[i]))

\* get(num_classes, images_, keep_prob_, is_training_, train_phase): the
\* layers it adds to the graph, the lines it prints and how it ends; the
\* tensor it returns is the output of the last layer
get(num_classes, images_shape, train_phase) ==
    LET is_training == IF train_phase THEN "is_training_" ELSE "False"
        convs  == ConvBlocks(1, NumConvBlocks, images_shape,
                             FirstNumKernels, is_training)
        conv6  == convs[NumConvBlocks]
        fc1    == DenseBlock(<<"fc1">>, conv6.shape,
                             <<LAST_KERNEL_SIDE, LAST_KERNEL_SIDE,
                               conv6.kernel_shape[4], FC_NEURONS>>,
                             train_phase)
        fc2    == DenseBlock(<<"fc2">>, fc1.shape,
                             <<1, 1, FC_NEURONS, FC_NEURONS>>, train_phase)
        out    == DenseBlock(<<"softmax_linear">>, fc2.shape,
                             <<1, 1, FC_NEURONS, num_classes>>, FALSE)
    IN  RunBuilders(convs \o <<fc1, fc2, out>>, 1, <<>>,
                    <<Line(<<"images_">>, images_shape)>>)

\* define_model(num_classes, train_phase): the images_ placeholder and get()
define_model(num_classes, train_phase) ==
    get(num_classes, <<NoneDim, INPUT_SIDE, INPUT_SIDE, INPUT_DEPTH>>, train_phase)

-----------------------------------------------------------------------------
(* The file system export_model works on *)

SessionDirs == {"sess"}
CheckpointNames == {"model-0", "model-1"}
ModelFilenames == {<<"model.pb">>, <<"other.pb">>}

\* session_dir + "/" + name
Join(session_dir, name) == <<session_dir, name>>

SkeletonPath(session_dir) == Join(session_dir, "skeleton.pbtxt")

Paths ==
    {Join(d, c) : d \in SessionDirs, c \in CheckpointNames}
    \cup {SkeletonPath(d) : d \in SessionDirs}
    \cup ModelFilenames

File(kind, num_classes, nodes, source) ==
    [kind |-> kind, num_classes |-> num_classes, nodes |-> nodes, source |-> source]

NoFile == File("none", 0, {}, <<>>)
\* a checkpoint saved while training a model of num_classes classes
Checkpoint(num_classes) == File("checkpoint", num_classes, {}, <<>>)
\* a model file that was there before any export
OldModel == File("frozen", 0, {}, <<"earlier">>)

\* os.path.exists(path)
Exists(fsys, path) == fsys[path].kind # "none"

\* op names of a graph: every layer's convolution output and its last op
NodeNames(g) == {g[i].name : i \in 1..Len(g)} \cup {g[i].conv : i \in 1..Len(g)}

\* export_model without its test for an existing model file
ModelExistsNever(fsys, model_filename) == FALSE

\* os.path.exists(model_filename), the test export_model opens with
ModelExists(fsys, model_filename) == Exists(fsys, model_filename)

\* number of classes the variables of a graph are shaped for
GraphClasses(g) == g[Len(g)].kernel_shape[4]

\* saver.restore(sess, save_path): raises ValueError when nothing is at
\* save_path, a framework error when the checkpoint does not fit the graph
RestoreOutcome(fsys, save_path, g) ==
    IF ~Exists(fsys, save_path) THEN "ValueError"
    ELSE IF fsys[save_path].kind # "checkpoint"
            \/ fsys[save_path].num_classes # GraphClasses(g) THEN "OpError"
    ELSE "ok"

\* tf.train.write_graph(graph.as_graph_def(), session_dir, "skeleton.pbtxt")
write_graph(fsys, g, session_dir) ==
    [fsys EXCEPT ![SkeletonPath(session_dir)] =
        File("graphdef", GraphClasses(g), NodeNames(g), <<>>)]

\* freeze_graph.freeze_graph(input_graph, ..., input_checkpoint,
\* output_node_names, ..., output_graph, ...): its result and the file system
\* it leaves
freeze_graph(fsys, input_graph, input_checkpoint, output_node_names, output_graph) ==
    IF ~Exists(fsys, input_graph) \/ ~Exists(fsys, input_checkpoint)
    THEN [result |-> "-1", fs |-> fsys]
    ELSE IF output_node_names \notin fsys[input_graph].nodes
    THEN [result |-> "raised", fs |-> fsys]
    ELSE [result |-> "ok",
          fs |-> [fsys EXCEPT ![output_graph] =
                    File("frozen", fsys[input_graph].num_classes,
                         {output_node_names}, input_checkpoint)]]

Call(api, result, graph_path, checkpoint, output_node, output_graph) ==
    [api |-> api, result |-> result, graph_path |-> graph_path,
     checkpoint |-> checkpoint, output_node |-> output_node,
     output_graph |-> output_graph]

UnableToRestore == "[E] Unable to restore from checkpoint"
\* "{} already exists. Skipping export_model".format(model_filename)
SkippingExport(model_filename) ==
    Line(model_filename \o <<"already exists. Skipping export_model">>, <<>>)

\* an except clause that prints and then carries on with the export
ExceptValueErrorFallThrough ==
    [pc |-> "write_graph", ret |-> "running", stderr |-> <<UnableToRestore>>]

\* except ValueError: print("[E] Unable to restore from checkpoint"); return -1
ExceptValueError ==
    [pc |-> "idle", ret |-> "-1", stderr |-> <<UnableToRestore>>]

NoGetRet == [status |-> "none", attempted |-> NoLayer]

NoGetArgs == [num_classes |-> 0, train_phase |-> FALSE]

NoArgs == [num_classes |-> 0, session_dir |-> "", input_checkpoint |-> "",
           model_filename |-> <<>>]

-----------------------------------------------------------------------------
(* export_model, one action per framework call it makes *)

\* export_model(...) entered: the os.path.exists test and the else branch
ExportModel(num_classes, session_dir, input_checkpoint, model_filename) ==
    /\ pc = "idle"
    /\ ncalls < MaxCalls
    /\ ncalls' = ncalls + 1
    /\ args' = [num_classes |-> num_classes, session_dir |-> session_dir,
                input_checkpoint |-> input_checkpoint,
                model_filename |-> model_filename]
    /\ fs0' = fs
    /\ log' = <<>>
    /\ stderr' = <<>>
    /\ IF ~ModelExists(fs, model_filename)
       THEN /\ pc' = "define_model"
            /\ graph' = <<>>
            /\ ret' = "running"
            /\ stdout' = <<>>
       ELSE /\ pc' = "idle"
            /\ graph' = graph
            /\ ret' = "None"
            /\ stdout' = <<SkippingExport(model_filename)>>
    /\ UNCHANGED <<images, get_args, get_ret, fs>>

\* define_model(num_classes, train_phase=False) in the new graph; a
\* ValueError of get() is not caught and leaves export_model
DefineModel ==
    /\ pc = "define_model"
    /\ \E model \in {define_model(args.num_classes, FALSE)} :
           /\ graph' = model.layers
           /\ get_ret' = [status |-> model.status, attempted |-> model.attempted]
           /\ stdout' = stdout \o model.printed
           /\ log' = Append(log, Call("define_model", "train_phase=False",
                                      <<>>, <<>>, <<>>, <<>>))
           /\ IF model.status = "returned"
              THEN pc' = "restore" /\ ret' = ret
              ELSE pc' = "idle" /\ ret' = "raised"
    /\ get_args' = [num_classes |-> args.num_classes, train_phase |-> FALSE]
    /\ UNCHANGED <<images, fs, fs0, args, stderr, ncalls>>

\* saver.restore(sess, session_dir + "/" + input_checkpoint) in its try block
Restore ==
    /\ pc = "restore"
    /\ LET save_path == Join(args.session_dir, args.input_checkpoint)
           outcome   == RestoreOutcome(fs, save_path, graph)
       IN  /\ log' = Append(log, Call("restore", outcome, <<>>, save_path,
                                      <<>>, <<>>))
           /\ CASE outcome = "ok" ->
                    /\ pc' = "write_graph"
                    /\ UNCHANGED <<ret, stderr>>
                [] outcome = "ValueError" ->
                    /\ pc' = ExceptValueError.pc
                    /\ ret' = ExceptValueError.ret
                    /\ stderr' = ExceptValueError.stderr
                [] OTHER ->
                    /\ pc' = "idle"
                    /\ ret' = "raised"
                    /\ UNCHANGED stderr
    /\ UNCHANGED <<images, get_args, get_ret, graph, fs, fs0, args, stdout, ncalls>>

\* tf.train.write_graph(..., session_dir, "skeleton.pbtxt", as_text=True)
WriteGraph ==
    /\ pc = "write_graph"
    /\ fs' = write_graph(fs, graph, args.session_dir)
    /\ log' = Append(log, Call("write_graph", "ok",
                               SkeletonPath(args.session_dir), <<>>, <<>>, <<>>))
    /\ pc' = "freeze_graph"
    /\ UNCHANGED <<images, get_args, get_ret, graph, fs0, args, ret, stdout, stderr, ncalls>>

\* freeze_graph.freeze_graph(session_dir + "/skeleton.pbtxt", ...,
\* session_dir + "/" + input_checkpoint, OUTPUT_TENSOR_NAME, ...,
\* model_filename, ...), then export_model falls off its end
FreezeGraph ==
    /\ pc = "freeze_graph"
    /\ LET input_graph      == SkeletonPath(args.session_dir)
           input_checkpoint == Join(args.session_dir, args.input_checkpoint)
           frozen == freeze_graph(fs, input_graph, input_checkpoint,
                                  OUTPUT_TENSOR_NAME, args.model_filename)
       IN  /\ fs' = frozen.fs
           /\ log' = Append(log, Call("freeze_graph", frozen.result, input_graph,
                                      input_checkpoint, OUTPUT_TENSOR_NAME,
                                      args.model_filename))
           /\ ret' = IF frozen.result = "raised" THEN "raised" ELSE "None"
    /\ pc' = "idle"
    /\ UNCHANGED <<images, get_args, get_ret, graph, fs0, args, stdout, stderr, ncalls>>

\* the state before any export: checkpoints left by training, and possibly
\* a model file from an earlier run
Init ==
    /\ images = <<NoneDim, INPUT_SIDE, INPUT_SIDE, INPUT_DEPTH>>
    /\ get_args = NoGetArgs
    /\ get_ret = NoGetRet
    /\ graph = <<>>
    /\ fs \in [Paths -> {NoFile, OldModel} \cup {Checkpoint(n) : n \in 1..MaxClasses}]
    /\ \A d \in SessionDirs :
         /\ fs[SkeletonPath(d)] = NoFile
         /\ \A c \in CheckpointNames : fs[Join(d, c)] # OldModel
    /\ \A m \in ModelFilenames : fs[m] \in {NoFile, OldModel}
    /\ fs0 = fs
    /\ pc = "idle"
    /\ args = NoArgs
    /\ log = <<>>
    /\ ret = "None"
    /\ stdout = <<>>
    /\ stderr = <<>>
    /\ ncalls = 0

Next ==
    \/ \E n \in 1..MaxClasses, d \in SessionDirs, c \in CheckpointNames,
          m \in ModelFilenames : ExportModel(n, d, c, m)
    \/ DefineModel
    \/ Restore
    \/ WriteGraph
    \/ FreezeGraph

Spec == Init /\ [][Next]_vars

-----------------------------------------------------------------------------
(* get() applied to image batches of any size *)

ImageShapes ==
    {<<NoneDim, h, w, INPUT_DEPTH>> : h \in 1..MaxSide, w \in 1..MaxSide}

\* a caller builds the network on an images_ tensor in a fresh graph
GetCall(num_classes, train_phase) ==
    /\ get_ret.status = "none"
    /\ \E model \in {get(num_classes, images, train_phase)} :
           /\ graph' = model.layers
           /\ get_ret' = [status |-> model.status, attempted |-> model.attempted]
           /\ stdout' = model.printed
    /\ get_args' = [num_classes |-> num_classes, train_phase |-> train_phase]
    /\ UNCHANGED <<images, fs, fs0, pc, args, log, ret, stderr, ncalls>>

InitGet ==
    /\ images \in ImageShapes
    /\ get_args = NoGetArgs
    /\ get_ret = NoGetRet
    /\ graph = <<>>
    /\ fs = [p \in Paths |-> NoFile]
    /\ fs0 = fs
    /\ pc = "idle"
    /\ args = NoArgs
    /\ log = <<>>
    /\ ret = "None"
    /\ stdout = <<>>
    /\ stderr = <<>>
    /\ ncalls = 0

NextGet ==
    \E n \in 1..MaxClasses, t \in BOOLEAN : GetCall(n, t)

SpecGet == InitGet /\ [][NextGet]_vars

-----------------------------------------------------------------------------
(* Properties of get() *)

\* get() has been called on images
Called == get_ret.status # "none"

\* get() has returned its output tensor
Built == get_ret.status = "returned"

TrainingSize ==
    images[2] = INPUT_SIDE /\ images[3] = INPUT_SIDE /\ images[4] = INPUT_DEPTH

\* C1: on images of the training size (192x192x3) the spatial side after the
\* six eq_conv_layer blocks is 96, 48, 24, 12, 6, 3 in that order, fc1
\* reduces it to 1, and the returned tensor has shape batch x 1 x 1 x
\* num_classes, whatever num_classes is.
C1_TrainingSizeShapes ==
    (Called /\ TrainingSize) =>
        /\ Built
        /\ Len(graph) = 9
        /\ \A i \in 1..6 :
             /\ graph[i].shape[2] = <<96, 48, 24, 12, 6, 3>>[i]
             /\ graph[i].shape[3] = <<96, 48, 24, 12, 6, 3>>[i]
        /\ graph[7].conv = <<"fc1", "out">>
        /\ graph[7].shape[2] = 1 /\ graph[7].shape[3] = 1
        /\ graph[9].shape = <<images[1], 1, 1, get_args.num_classes>>

C1_Witness ==
    /\ Built /\ TrainingSize
    /\ get_args.num_classes = 2
    /\ graph[6].shape[2] = 3
    /\ graph[9].shape[4] = 2

\* C2: get() builds exactly six convolution+normalization blocks, conv1 to
\* conv6, each with strides [1, 2, 2, 1]; their filter counts are 128, 128,
\* 256, 256, 512, 512, and the depth of each block's kernels is the filter
\* count of the block before it (3, the image depth, for conv1).
C2_SixConvBlocks ==
    Called =>
        /\ {i \in 1..Len(graph) : graph[i].block = "eq_conv"} = 1..6
        /\ \A i \in 1..6 :
             /\ graph[i].conv =
                  <<<<"128", "128", "256", "256", "512", "512">>[i],
                    <<"conv1", "conv2", "conv3", "conv4", "conv5", "conv6">>[i],
                    "eq_conv_layer", "out">>
             /\ graph[i].strides = <<1, 2, 2, 1>>
             /\ graph[i].kernel_shape[4] = <<128, 128, 256, 256, 512, 512>>[i]
             /\ graph[i].kernel_shape[3] =
                  IF i = 1 THEN 3 ELSE graph[i - 1].kernel_shape[4]
             /\ graph[i].shape[4] = graph[i].kernel_shape[4]

C2_Witness ==
    /\ Built
    /\ images[2] # images[3]
    /\ graph[5].kernel_shape = <<3, 3, 256, 512>>
    /\ graph[6].kernel_shape = <<3, 3, 512, 512>>

\* the final 1x1 projection to num_classes channels, after fc1 and fc2
FinalProjection ==
    /\ Len(graph) = 9
    /\ graph[9].conv = <<"softmax_linear", "out">>
    /\ graph[9].kernel_shape = <<1, 1, 2048, get_args.num_classes>>
    /\ graph[9].strides = <<1, 1, 1, 1>>

\* the layer get() applies right after conv6: created, or the one whose
\* convolution raised
AfterConv6 == IF Len(graph) >= 7 THEN graph[7] ELSE get_ret.attempted

\* C3 as stated: after the six convolution blocks come fc1 and fc2, each a
\* 1x1 kernel with stride 1 producing FC_NEURONS channels, then a 1x1
\* projection to num_classes channels.
C3_BothDenseBlocksAre1x1 ==
    Called =>
        /\ AfterConv6.conv = <<"fc1", "out">>
        /\ AfterConv6.kernel_shape[1] = 1 /\ AfterConv6.kernel_shape[2] = 1
        /\ AfterConv6.strides = <<1, 1, 1, 1>>
        /\ AfterConv6.kernel_shape[4] = 2048
        /\ Built =>
             /\ graph[8].conv = <<"fc2", "out">>
             /\ graph[8].kernel_shape[1] = 1 /\ graph[8].kernel_shape[2] = 1
             /\ graph[8].strides = <<1, 1, 1, 1>>
             /\ graph[8].kernel_shape[4] = 2048
             /\ FinalProjection

\* C3 amended: after the six convolution blocks get() applies fc1, a 3x3
\* (LAST_KERNEL_SIDE) VALID convolution with stride 1 over the 512 channels
\* of conv6 producing FC_NEURONS = 2048 channels; where that convolution is
\* accepted, fc2 follows, a 1x1 convolution with stride 1 producing
\* FC_NEURONS channels, and then a 1x1 projection to num_classes channels.
C3_DenseBlocks ==
    Called =>
        /\ AfterConv6.conv = <<"fc1", "out">>
        /\ AfterConv6.kernel_shape = <<3, 3, 512, 2048>>
        /\ AfterConv6.strides = <<1, 1, 1, 1>>
        /\ AfterConv6.padding = "VALID"
        /\ AfterConv6.block = "conv"
        /\ Built <=> ~AfterConv6.raised
        /\ Built =>
             /\ graph[8].conv = <<"fc2", "out">>
             /\ graph[8].kernel_shape = <<1, 1, 2048, 2048>>
             /\ graph[8].block = "conv"
             /\ graph[8].strides = <<1, 1, 1, 1>>
             /\ graph[8].padding = "VALID"
             /\ FinalProjection
        /\ ~Built => Len(graph) = 6

C3_Witness ==
    /\ Built
    /\ get_args.train_phase
    /\ graph[7].kernel_shape[1] = 3
    /\ graph[7].dropout /\ graph[8].dropout /\ ~graph[9].dropout

\* C4: the model is fully convolutional: for every input height and width
\* >= 1, get() produces an output map whose height and width are both >= 1;
\* no input size makes a layer's output dimension zero or negative.
C4_AnySizeGivesAMap ==
    Called =>
        /\ Built
        /\ \A i \in 1..Len(graph) : graph[i].shape[2] >= 1 /\ graph[i].shape[3] >= 1

-----------------------------------------------------------------------------
(* Properties of export_model *)

LastCall == log[Len(log)]

\* the restore of the current call failed
RestoreFailed ==
    log # <<>> /\ LastCall.api = "restore" /\ LastCall.result # "ok"

NoFileWritten ==
    /\ fs = fs0
    /\ \A i \in 1..Len(log) : log[i].api \notin {"write_graph", "freeze_graph"}

\* C5: when a file already exists at model_filename as export_model is
\* called, the call performs no export step: it builds no graph, restores no
\* checkpoint, writes no file, does not invoke freeze_graph and leaves the
\* model file as it is.  A model file, once there, stays as it is, so after
\* one successful export every later call with that model_filename is such a
\* no-op.
C5_ExistingModelSkipsExport ==
    [][ /\ (/\ pc = "idle"
            /\ ncalls' = ncalls + 1
            /\ fs[args'.model_filename].kind # "none")
           => /\ pc' = "idle"
              /\ log' = <<>>
              /\ graph' = graph
              /\ fs' = fs
              /\ ret' = "None"
              /\ Len(stdout') = 1 /\ stderr' = <<>>
        /\ \A m \in ModelFilenames :
             fs[m].kind # "none" => fs'[m] = fs[m] ]_vars

\* a later call that found the model file an earlier call had exported
C5_Witness ==
    /\ ncalls >= 2
    /\ pc = "idle"
    /\ log = <<>>
    /\ stdout = <<SkippingExport(args.model_filename)>>
    /\ stderr = <<>>
    /\ fs[args.model_filename].kind = "frozen"
    /\ fs[args.model_filename].source # <<"earlier">>

\* C6 as stated: if the checkpoint cannot be restored, export_model prints an
\* error and returns -1, and neither skeleton.pbtxt nor the frozen model has
\* been written.
C6_RestoreFailureReturnsMinusOne ==
    RestoreFailed =>
        /\ ret = "-1"
        /\ stderr = <<"[E] Unable to restore from checkpoint">>
        /\ NoFileWritten

\* C6 amended: if saver.restore raises ValueError (nothing is at the
\* checkpoint path), export_model prints an error and returns -1; if it fails
\* with any other exception, export_model prints no error message and the
\* exception leaves export_model; in both cases the call is over, stdout
\* holds only the 16 tensor lines get() printed, and neither skeleton.pbtxt
\* nor the frozen model file has been written.
C6_RestoreFailureWritesNothing ==
    RestoreFailed =>
        /\ pc = "idle"
        /\ LastCall.result = "ValueError"
             => (ret = "-1" /\ stderr = <<"[E] Unable to restore from checkpoint">>)
        /\ LastCall.result # "ValueError"
             => (ret = "raised" /\ stderr = <<>>)
        /\ Len(stdout) = 16
        /\ stdout[1] = [text |-> <<"images_">>, shape |-> <<-1, 192, 192, 3>>]
        /\ stdout[16] = [text |-> <<"softmax_linear", "out">>,
                         shape |-> <<-1, 1, 1, args.num_classes>>]
        /\ NoFileWritten

C6_Witness ==
    /\ RestoreFailed
    /\ LastCall.result = "ValueError"
    /\ ret = "-1"
    /\ ncalls >= 2
    /\ \E d \in SessionDirs : fs[SkeletonPath(d)].kind = "graphdef"

\* the current call ran to the end of a freeze_graph that wrote the model
Exported ==
    /\ pc = "idle"
    /\ log # <<>>
    /\ LastCall.api = "freeze_graph"
    /\ LastCall.result = "ok"

\* C7: a successful export_model run makes its calls in this order: define
\* the model with train_phase=False, restore session_dir/input_checkpoint,
\* write session_dir/skeleton.pbtxt, invoke freeze_graph on that skeleton and
\* that checkpoint; freeze_graph is never invoked before the skeleton is
\* written; the output node it is given, softmax_linear/out, is the name of
\* the op get() returned in that graph.
C7_ExportOrder ==
    /\ Exported =>
         LET skeleton   == <<args.session_dir, "skeleton.pbtxt">>
             checkpoint == <<args.session_dir, args.input_checkpoint>>
         IN  /\ Len(log) = 4
             /\ log[1].api = "define_model"
             /\ log[1].result = "train_phase=False"
             /\ log[2].api = "restore"
             /\ log[2].checkpoint = checkpoint
             /\ log[3].api = "write_graph"
             /\ log[3].graph_path = skeleton
             /\ log[4].api = "freeze_graph"
             /\ log[4].graph_path = skeleton
             /\ log[4].checkpoint = checkpoint
             /\ log[4].output_graph = args.model_filename
             /\ fs[args.model_filename].kind = "frozen"
             /\ fs[args.model_filename].source = checkpoint
    /\ \A i \in 1..Len(log) :
         log[i].api = "freeze_graph" =>
             /\ log[i].output_node = <<"softmax_linear", "out">>
             /\ \E j \in 1..(i - 1) :
                  /\ log[j].api = "write_graph"
                  /\ log[j].graph_path = log[i].graph_path
                  /\ fs0[log[j].graph_path].kind = "none"
                       => fs[log[j].graph_path].kind = "graphdef"
    /\ log # <<>> =>
         /\ graph[Len(graph)].name = <<"softmax_linear", "out">>
         /\ get_ret.status = "returned"
         /\ get_args = [num_classes |-> args.num_classes, train_phase |-> FALSE]
         /\ \A i \in 1..Len(graph) :
              ~graph[i].dropout /\ graph[i].is_training \in {"False", "unused"}

C7_Witness ==
    /\ Exported
    /\ ncalls = 1
    /\ fs0[SkeletonPath(args.session_dir)].kind = "none"
    /\ fs[SkeletonPath(args.session_dir)].kind = "graphdef"
    /\ OUTPUT_TENSOR_NAME \in fs[SkeletonPath(args.session_dir)].nodes
    /\ fs[args.model_filename].nodes = {OUTPUT_TENSOR_NAME}

====
